---- MODULE Spec2Model ----
(***************************************************************************)
(* Authentication and session trust of nestjs-auth: the user table, the    *)
(* refresh-token table, the access tokens handed out, and one action per   *)
(* request handler of AuthController / UsersController, each translated    *)
(* from AuthService / UsersService.                                        *)
(***************************************************************************)
EXTENDS Integers, Sequences, FiniteSets, TLC

\* ------------------------------------------------------------------ bounds
MaxTokenVersion == 2
MaxRefreshTokens == 3
MaxPwJobs == 1
MaxOtpCodes == 2
MaxResetCodes == 2
MaxCalls == 2

Emails == {"a@x.com"}
Passwords == {"pw1", "pw2"}
Salts == {"s1"}
SaltsDrawn == {"s1", "s2"}
GoogleIds == {"g1"}

\* ------------------------------------------------------------- the tables
VARIABLES
    users,          \* the user table: a sequence of rows, a row's id is its index
    refreshTokens,  \* the refresh-token table: a sequence of rows, a row's id is its
                    \* index and names the raw token; a deleted row leaves "deleted"
    accessIssued,   \* every access token with a tokenVersion snapshot handed out so far
    pwJobs,         \* passwordService.changePassword calls started and not yet settled
    bannedTokens,   \* the refresh tokens a user had been issued when a ban of it completed
    calls,          \* the refresh and reset-password requests in flight, each
                    \* between its read of the store and its write
    passwordResets, \* how many reset codes were drawn, and per code how many
                    \* reset-password requests succeeded with it
    twoFactor,      \* the two-factor service: how many secrets and codes it drew, and
                    \* the codes that were outstanding when a verify was made
    last            \* the handler that ran last and what it returned

vars == <<users, refreshTokens, accessIssued, pwJobs, bannedTokens, twoFactor, calls,
          passwordResets, last>>

\* UserStatus (auth.service.ts names Inactive, Deleted, Blocked; Active is the rest)
Active == "Active"
Inactive == "Inactive"
Blocked == "Blocked"
Deleted == "Deleted"
UserStatus == {Active, Inactive, Blocked, Deleted}

\* column values that stand for SQL NULL / JS undefined
NullPassword == <<"null">>
NullGoogleId == "null"
NoVersion == -1
NoOtp == 0
NoCode == 0

\* ------------------------------------------------------- password hashing
\* scrypt(password, salt, 32).toString('hex'): a function of both arguments
Scrypt(password, salt) == password \o "|" \o salt

\* salt + '.' + hash.toString('hex')
StoredPassword(password, salt) == <<salt, ".", Scrypt(password, salt)>>

\* String.prototype.split('.') over a value held as a sequence of pieces
RECURSIVE SplitDot(_)
SplitDot(s) ==
    IF s = <<>> THEN << <<>> >>
    ELSE IF Head(s) = "." THEN << <<>> >> \o SplitDot(Tail(s))
    ELSE LET rest == SplitDot(Tail(s))
         IN  << <<Head(s)>> \o Head(rest) >> \o Tail(rest)

\* the pieces of one split part, read back as one string
RECURSIVE Join(_)
Join(s) == IF s = <<>> THEN "" ELSE Head(s) \o Join(Tail(s))

\* faulty variant: the stored hash is not compared
PasswordMatches_AnyPassword(stored, password) == Len(SplitDot(stored)) >= 2

\* const [salt, storedHash] = user.password.split('.');
\* storedHash === (await scrypt(password, salt, 32)).toString('hex')
\* (a value without '.' leaves storedHash undefined, which equals no hash)
PasswordMatches(stored, password) ==
    LET parts == SplitDot(stored)
    IN  /\ Len(parts) >= 2
        /\ Join(parts[2]) = Scrypt(password, Join(parts[1]))

\* ------------------------------------------------------------ repository
\* the email index is unique, so the table never holds more rows than emails
UserIds == 1..Cardinality(Emails)

Exists(id) == id \in 1..Len(users)

\* repo.findOneBy({ email }): the first matching row's id, 0 for null
findByEmail(email) ==
    IF \E i \in 1..Len(users) : users[i].email = email
    THEN CHOOSE i \in 1..Len(users) :
            /\ users[i].email = email
            /\ \A j \in 1..(i - 1) : users[j].email # email
    ELSE 0

\* repo.findOneBy({ googleId })
findByGoogleId(googleId) ==
    IF \E i \in 1..Len(users) : users[i].googleId = googleId
    THEN CHOOSE i \in 1..Len(users) :
            /\ users[i].googleId = googleId
            /\ \A j \in 1..(i - 1) : users[j].googleId # googleId
    ELSE 0

\* the row repo.create({ email, password }) + save inserts
NewUser(email, password) ==
    [email |-> email, password |-> password, googleId |-> NullGoogleId,
     provider |-> "local", status |-> Active, tokenVersion |-> 0,
     twoFactorSecret |-> NoOtp, twoFactorEnabled |-> FALSE,
     otp |-> NoOtp, otpExpired |-> FALSE, otpCooldown |-> FALSE,
     passwordResetCode |-> NoCode, passwordResetExpired |-> FALSE,
     role |-> "user", displayName |-> ""]

\* the row repo.create(profile) + save inserts
NewGoogleUser(email, googleId) ==
    [email |-> email, password |-> NullPassword, googleId |-> googleId,
     provider |-> "google", status |-> Active, tokenVersion |-> 0,
     twoFactorSecret |-> NoOtp, twoFactorEnabled |-> FALSE,
     otp |-> NoOtp, otpExpired |-> FALSE, otpCooldown |-> FALSE,
     passwordResetCode |-> NoCode, passwordResetExpired |-> FALSE,
     role |-> "user", displayName |-> ""]

\* the unique indexes of the user table: email, and googleId when present
UniqueViolation(row) ==
    \E i \in 1..Len(users) :
        \/ users[i].email = row.email
        \/ row.googleId # NullGoogleId /\ users[i].googleId = row.googleId

\* ---------------------------------------------------------------- tokens
\* jwtService.sign({ sub, email }): no tokenVersion in the payload
SignPayload(id) == [sub |-> id, ver |-> NoVersion]

\* tokenService.createAccessToken(user)
createAccessToken(id, user) == [sub |-> id, ver |-> user.tokenVersion]

\* tokenService.createRefreshToken(user): a new stored row for the user
createRefreshToken(id) == Append(refreshTokens, [user |-> id, state |-> "active", parent |-> 0])

\* the snapshot check against a given user table
VerifyIn(rows, tok) ==
    IF ~(tok.sub \in 1..Len(rows)) THEN "InvalidToken"
    ELSE IF tok.ver # rows[tok.sub].tokenVersion THEN "TokenVersionMismatch"
    ELSE "ok"

\* access-token validation: the snapshot must equal the live tokenVersion
VerifyAccess(tok) == VerifyIn(users, tok)

\* what a handler returned: the user it acted for, the exception or "ok", the
\* tokens in the response body, the argument presented (a token, a code, an
\* id) and the user rows in the response body
Reply(op, uid, out, access, refresh) ==
    [op |-> op, uid |-> uid, out |-> out, access |-> access, refresh |-> refresh,
     arg |-> 0, body |-> <<>>]


\* ---------------------------------------------------------------- Init
\* a request slot with no request in it
Idle ==
    [pc |-> "idle", arg |-> 0, found |-> 0, seen |-> NoCode, password |-> NullPassword,
     email |-> "", googleId |-> NullGoogleId, row |-> <<>>]

Init ==
    /\ users = <<>>
    /\ refreshTokens = <<>>
    /\ accessIssued = {}
    /\ pwJobs = {}
    /\ bannedTokens = {}
    /\ twoFactor = [drawn |-> 0, spent |-> {}]
    /\ calls = [c \in 1..MaxCalls |-> Idle]
    /\ passwordResets = [drawn |-> 0, redeemed |-> [code \in 1..MaxResetCodes |-> 0]]
    /\ last = Reply("boot", 0, "ok", {}, {})

\* a handler that throws: nothing is written, the exception is the reply
Throw(op, uid, exception) ==
    /\ last' = Reply(op, uid, exception, {}, {})
    /\ UNCHANGED <<users, refreshTokens, accessIssued, pwJobs, bannedTokens, twoFactor, calls, passwordResets>>

\* ------------------------------------------------------------ AuthService
\* faulty variant: the Google-account check is left out
signup_NoGoogleCheck(email, password, salt) ==
    LET user == findByEmail(email)
    IN  IF user # 0
        THEN Throw("signup", user, "EmailInUse")
        ELSE /\ users' = Append(users, NewUser(email, StoredPassword(password, salt)))
             /\ last' = Reply("signup", Len(users) + 1, "ok",
                              {SignPayload(Len(users) + 1)}, {})
             /\ UNCHANGED <<refreshTokens, accessIssued, pwJobs, bannedTokens, twoFactor, calls, passwordResets>>

signup(email, password, salt) ==
    LET user == findByEmail(email)
    IN  IF user # 0 /\ users[user].googleId # NullGoogleId
        THEN Throw("signup", user, "ForbiddenException")
        ELSE IF user # 0
        THEN Throw("signup", user, "EmailInUse")
        ELSE /\ users' = Append(users, NewUser(email, StoredPassword(password, salt)))
             /\ last' = Reply("signup", Len(users) + 1, "ok",
                              {SignPayload(Len(users) + 1)}, {})
             /\ UNCHANGED <<refreshTokens, accessIssued, pwJobs, bannedTokens, twoFactor, calls, passwordResets>>

\* login(user): the status gate, then an access and a refresh token.
\* The value is the reply and the refresh-token table the call leaves.
login(id, user) ==
    IF user.status = Inactive \/ user.status = Deleted \/ user.status = Blocked
    THEN [out |-> "AccountInactiveException", access |-> {}, refresh |-> {},
          table |-> refreshTokens]
    ELSE [out |-> "ok", access |-> {createAccessToken(id, user)},
          refresh |-> {Len(refreshTokens) + 1}, table |-> createRefreshToken(id)]

\* faulty variant: the "Please use Google to login" check is left out
signin_NoGoogleCheck(email, password) ==
    LET user == findByEmail(email)
        out == IF user = 0 THEN "NotFoundException"
               ELSE IF users[user].password = NullPassword THEN "TypeError"
               ELSE IF ~PasswordMatches(users[user].password, password)
               THEN "WrongEmailOrPassword"
               ELSE "ok"
    IN  /\ last' = Reply("signin", user, out,
                         IF out = "ok" THEN {SignPayload(user)} ELSE {}, {})
        /\ UNCHANGED <<users, refreshTokens, accessIssued, pwJobs, bannedTokens, twoFactor, calls, passwordResets>>

signin(email, password) ==
    LET user == findByEmail(email)
        out == IF user = 0 THEN "NotFoundException"
               ELSE IF users[user].password \in {NullPassword, <<>>}
                       /\ users[user].googleId # NullGoogleId
               THEN "ForbiddenException"
               ELSE IF users[user].password = NullPassword THEN "TypeError"
               ELSE IF ~PasswordMatches(users[user].password, password)
               THEN "WrongEmailOrPassword"
               ELSE "ok"
    IN  /\ last' = Reply("signin", user, out,
                         IF out = "ok" THEN {SignPayload(user)} ELSE {}, {})
        /\ UNCHANGED <<users, refreshTokens, accessIssued, pwJobs, bannedTokens, twoFactor, calls, passwordResets>>

\* what verifyUser throws, or "ok" when it returns the user
verifyUser(email, password) ==
    LET user == findByEmail(email)
    IN  IF user # 0 /\ users[user].provider = "google"
        THEN "UnprocessableEntityException"
        ELSE IF user = 0 THEN "NotFoundException"
        ELSE IF users[user].password = NullPassword THEN "TypeError"
        ELSE IF ~PasswordMatches(users[user].password, password)
        THEN "WrongEmailOrPassword"
        ELSE "ok"

googleLogin(googleId, email) ==
    LET found == findByGoogleId(googleId)
        row == NewGoogleUser(email, googleId)
        user == IF found # 0 THEN found ELSE Len(users) + 1
    IN  IF found = 0 /\ UniqueViolation(row)
        THEN Throw("googleLogin", findByEmail(email), "QueryFailedError")
        ELSE /\ users' = IF found = 0 THEN Append(users, row) ELSE users
             /\ last' = Reply("googleLogin", user, "ok", {SignPayload(user)}, {})
             /\ UNCHANGED <<refreshTokens, accessIssued, pwJobs, bannedTokens, twoFactor, calls, passwordResets>>

\* signup as two requests can interleave it: the findByEmail check, then
\* usersService.create
signupBegin(c, email, password, salt) ==
    LET user == findByEmail(email)
    IN  /\ calls[c].pc = "idle"
        /\ IF user # 0 /\ users[user].googleId # NullGoogleId
           THEN Throw("signup", user, "ForbiddenException")
           ELSE IF user # 0
           THEN Throw("signup", user, "EmailInUse")
           ELSE /\ calls' = [calls EXCEPT ![c] =
                                [Idle EXCEPT !.pc = "signup", !.email = email,
                                             !.password = StoredPassword(password, salt)]]
                /\ last' = Reply("signupBegin", 0, "pending", {}, {})
                /\ UNCHANGED <<users, refreshTokens, accessIssued, pwJobs, bannedTokens,
                               twoFactor, passwordResets>>

\* repo.save(user) of the new row: the unique email index refuses a second
\* row with the email, and nothing in signup catches that
signupCommit(c) ==
    LET row == NewUser(calls[c].email, calls[c].password)
    IN  /\ calls[c].pc = "signup"
        /\ calls' = [calls EXCEPT ![c] = Idle]
        /\ IF UniqueViolation(row)
           THEN /\ last' = Reply("signup", findByEmail(row.email), "QueryFailedError", {}, {})
                /\ UNCHANGED users
           ELSE /\ users' = Append(users, row)
                /\ last' = Reply("signup", Len(users) + 1, "ok",
                                 {SignPayload(Len(users) + 1)}, {})
        /\ UNCHANGED <<refreshTokens, accessIssued, pwJobs, bannedTokens, twoFactor,
                       passwordResets>>

\* googleLogin as two requests can interleave it: findByGoogleId, then
\* createFromGoogle when no user was found
googleBegin(c, googleId, email) ==
    LET found == findByGoogleId(googleId)
    IN  /\ calls[c].pc = "idle"
        /\ IF found # 0
           THEN /\ last' = Reply("googleLogin", found, "ok", {SignPayload(found)}, {})
                /\ UNCHANGED calls
           ELSE /\ calls' = [calls EXCEPT ![c] =
                                [Idle EXCEPT !.pc = "googleLogin", !.email = email,
                                             !.googleId = googleId]]
                /\ last' = Reply("googleBegin", 0, "pending", {}, {})
        /\ UNCHANGED <<users, refreshTokens, accessIssued, pwJobs, bannedTokens,
                       twoFactor, passwordResets>>

\* repo.save(user) of the Google profile: the unique indexes refuse a second
\* row with the email or the Google id, and googleLogin does not look again
googleCommit(c) ==
    LET row == NewGoogleUser(calls[c].email, calls[c].googleId)
    IN  /\ calls[c].pc = "googleLogin"
        /\ calls' = [calls EXCEPT ![c] = Idle]
        /\ IF UniqueViolation(row)
           THEN /\ last' = Reply("googleLogin", findByEmail(row.email),
                                 "QueryFailedError", {}, {})
                /\ UNCHANGED users
           ELSE /\ users' = Append(users, row)
                /\ last' = Reply("googleLogin", Len(users) + 1, "ok",
                                 {SignPayload(Len(users) + 1)}, {})
        /\ UNCHANGED <<refreshTokens, accessIssued, pwJobs, bannedTokens, twoFactor,
                       passwordResets>>

\* --------------------------------------------------------- AuthController
\* the reply of authService.login(user) and what it stored
ReturnLogin(op, id, user) ==
    LET r == login(id, user)
    IN  /\ r.out = "ok" => Len(refreshTokens) < MaxRefreshTokens
        /\ refreshTokens' = r.table
        /\ accessIssued' = accessIssued \cup r.access
        /\ last' = Reply(op, id, r.out, r.access, r.refresh)

\* POST /auth/login: the guard resolves the current user from the credentials
\* (verifyUser), the handler returns authService.login(user)
Login(email, password) ==
    LET out == verifyUser(email, password)
        user == findByEmail(email)
    IN  IF out # "ok"
        THEN Throw("login", user, out)
        ELSE /\ ReturnLogin("login", user, users[user])
             /\ UNCHANGED <<users, pwJobs, bannedTokens, twoFactor, calls, passwordResets>>

\* the bearer of a verifying access token of user id makes the request
Authenticated(id) ==
    \E tok \in accessIssued : tok.sub = id /\ VerifyAccess(tok) = "ok"

\* passwordService.changePassword(id, dto) run to its end on a row: the
\* current password is verified again, then the new hash is stored and
\* tokenVersion goes up by one
changePassword(row, job) ==
    IF ~PasswordMatches(row.password, job.current)
    THEN row
    ELSE [row EXCEPT !.password = StoredPassword(job.new, job.salt),
                     !.tokenVersion = @ + 1]

\* PATCH /auth/change-password: changePassword is started and not awaited;
\* the handler reads the row and returns login(updatedUser). The started
\* call may settle before the read (settled) or any time later (pwJobs).
changeMyPassword(id, current, new, salt, settled) ==
    LET job == [user |-> id, current |-> current, new |-> new, salt |-> salt]
        updatedUser == IF settled THEN changePassword(users[id], job) ELSE users[id]
    IN  /\ Exists(id)
        /\ Authenticated(id)
        /\ settled \/ Cardinality(pwJobs) < MaxPwJobs
        /\ users[id].tokenVersion < MaxTokenVersion
        /\ users' = [users EXCEPT ![id] = updatedUser]
        /\ pwJobs' = IF settled THEN pwJobs ELSE pwJobs \cup {job}
        /\ ReturnLogin("changeMyPassword", id, updatedUser)
        /\ UNCHANGED <<bannedTokens, twoFactor, calls, passwordResets>>

\* a started changePassword call settles; its rejection reaches no caller
settleChangePassword(job) ==
    /\ job \in pwJobs
    /\ users[job.user].tokenVersion < MaxTokenVersion
    /\ users' = [users EXCEPT ![job.user] = changePassword(users[job.user], job)]
    /\ pwJobs' = pwJobs \ {job}
    /\ last' = Reply("changePassword", job.user,
                     IF PasswordMatches(users[job.user].password, job.current)
                     THEN "ok" ELSE "UnhandledRejection", {}, {})
    /\ UNCHANGED <<refreshTokens, accessIssued, bannedTokens, twoFactor, calls, passwordResets>>

\* ----------------------------------------------------------- UsersService
deactivate(id) ==
    IF ~Exists(id)
    THEN Throw("deactivate", 0, "NotFoundException")
    ELSE /\ users' = [users EXCEPT ![id].status = Inactive]
         /\ last' = Reply("deactivate", id, "ok", {}, {})
         /\ UNCHANGED <<refreshTokens, accessIssued, pwJobs, bannedTokens, twoFactor, calls, passwordResets>>

\* the bodies PATCH /users/me is tried with: profile columns only
MeAttrs == {[displayName |-> "n1"]}

\* UserRoles
UserRoles == {"user", "admin"}

\* the refresh-token rows stored for a user
RowsOfUser(id) == {t \in 1..Len(refreshTokens) : refreshTokens[t].user = id}

\* faulty variant: the delete is left out
DeleteTokensOf_Nothing(id) == refreshTokens

\* refreshTokenRepo.delete({ user }): every row of the user leaves the table
DeleteTokensOf(id) ==
    [t \in 1..Len(refreshTokens) |->
        IF refreshTokens[t].user = id
        THEN [refreshTokens[t] EXCEPT !.state = "deleted"]
        ELSE refreshTokens[t]]

\* faulty variant: the ban saves the status and forgets user.tokenVersion += 1
banUser_KeepsVersion(id) ==
    IF ~Exists(id)
    THEN Throw("banUser", 0, "NotFoundException")
    ELSE /\ users[id].tokenVersion < MaxTokenVersion
         /\ users' = [users EXCEPT ![id].status = Blocked]
         /\ refreshTokens' = DeleteTokensOf(id)
         /\ bannedTokens' = bannedTokens
                \cup {t \in 1..Len(refreshTokens) : refreshTokens[t].user = id}
         /\ last' = Reply("banUser", id, "ok", {}, {})
         /\ UNCHANGED <<accessIssued, pwJobs, twoFactor, calls, passwordResets>>

banUser(id) ==
    IF ~Exists(id)
    THEN Throw("banUser", 0, "NotFoundException")
    ELSE /\ users[id].tokenVersion < MaxTokenVersion
         /\ users' = [users EXCEPT ![id].status = Blocked,
                                   ![id].tokenVersion = @ + 1]
         /\ refreshTokens' = DeleteTokensOf(id)
         /\ bannedTokens' = bannedTokens
                \cup {t \in 1..Len(refreshTokens) : refreshTokens[t].user = id}
         /\ last' = Reply("banUser", id, "ok", {}, {})
         /\ UNCHANGED <<accessIssued, pwJobs, twoFactor, calls, passwordResets>>

\* the request bodies PATCH /users/:userId is tried with (Partial<User>)
AdminAttrs ==
    {[status |-> s] : s \in UserStatus}
        \cup {[tokenVersion |-> v] : v \in 0..MaxTokenVersion}

\* repo.preload({ id, ...attrs }): the stored row with attrs written over it
Preload(row, attrs) ==
    [f \in DOMAIN row |-> IF f \in DOMAIN attrs THEN attrs[f] ELSE row[f]]

updateUserByAdmin(id, attrs) ==
    IF ~Exists(id)
    THEN Throw("updateUserByAdmin", 0, "NotFoundException")
    ELSE /\ users' = [users EXCEPT ![id] = Preload(users[id], attrs)]
         /\ last' = Reply("updateUserByAdmin", id, "ok", {}, {})
         /\ UNCHANGED <<refreshTokens, accessIssued, pwJobs, bannedTokens, twoFactor, calls, passwordResets>>

\* password columns a PATCH /users/:userId body can store: null, the empty
\* string, a string without '.', an empty salt, an empty hash
StoredValues == {NullPassword, <<>>, <<"abc">>, <<".", "h">>, <<"s1", ".">>}
PasswordAttrs == {[password |-> v] : v \in StoredValues}

\* PATCH /users/me: the same preload and save, for the current user
updateCurrentUser(id, attrs) ==
    /\ Exists(id)
    /\ Authenticated(id)
    /\ users' = [users EXCEPT ![id] = Preload(users[id], attrs)]
    /\ last' = Reply("updateCurrentUser", id, "ok", {}, {})
    /\ UNCHANGED <<refreshTokens, accessIssued, pwJobs, bannedTokens, twoFactor, calls,
                   passwordResets>>

assignRole(userId, role) ==
    IF ~Exists(userId)
    THEN Throw("assignRole", 0, "Error")
    ELSE /\ users' = [users EXCEPT ![userId].role = role]
         /\ last' = Reply("assignRole", userId, "ok", {}, {})
         /\ UNCHANGED <<refreshTokens, accessIssued, pwJobs, bannedTokens, twoFactor, calls,
                        passwordResets>>

\* faulty variant: the null of findOneById is returned as the response
findUser_ReturnsNull(userId) ==
    /\ last' = [Reply("findUser", IF Exists(userId) THEN userId ELSE 0, "ok", {}, {})
                   EXCEPT !.arg = userId,
                          !.body = IF Exists(userId) THEN <<users[userId]>> ELSE <<>>]
    /\ UNCHANGED <<users, refreshTokens, accessIssued, pwJobs, bannedTokens, twoFactor, calls,
                   passwordResets>>

\* GET /users/:userId: findOneById, NotFoundException on null, else the user
findUser(userId) ==
    /\ last' = IF ~Exists(userId)
               THEN [Reply("findUser", 0, "NotFoundException", {}, {}) EXCEPT !.arg = userId]
               ELSE [Reply("findUser", userId, "ok", {}, {})
                        EXCEPT !.arg = userId, !.body = <<users[userId]>>]
    /\ UNCHANGED <<users, refreshTokens, accessIssued, pwJobs, bannedTokens, twoFactor, calls,
                   passwordResets>>

\* ------------------------------------------- requests that interleave
\* POST /auth/login as another request can interleave it: the guard reads the
\* user (verifyUser), login(user) runs later on the object that was read
loginBegin(c, email, password) ==
    LET out == verifyUser(email, password)
        user == findByEmail(email)
    IN  /\ calls[c].pc = "idle"
        /\ IF out # "ok"
           THEN Throw("login", user, out)
           ELSE /\ calls' = [calls EXCEPT ![c] =
                                [Idle EXCEPT !.pc = "login", !.found = user,
                                             !.row = <<users[user]>>]]
                /\ last' = Reply("loginBegin", user, "pending", {}, {})
                /\ UNCHANGED <<users, refreshTokens, accessIssued, pwJobs, bannedTokens,
                               twoFactor, passwordResets>>

\* authService.login(user): the status gate on the object read earlier, then
\* the access token and the stored refresh token
loginCommit(c) ==
    /\ calls[c].pc = "login"
    /\ calls' = [calls EXCEPT ![c] = Idle]
    /\ ReturnLogin("login", calls[c].found, calls[c].row[1])
    /\ UNCHANGED <<users, pwJobs, bannedTokens, twoFactor, passwordResets>>

\* deactivate(id): repo.findOne reads the row
deactivateBegin(c, id) ==
    /\ calls[c].pc = "idle"
    /\ IF ~Exists(id)
       THEN Throw("deactivate", 0, "NotFoundException")
       ELSE /\ calls' = [calls EXCEPT ![c] =
                            [Idle EXCEPT !.pc = "deactivate", !.found = id,
                                         !.row = <<users[id]>>]]
            /\ last' = Reply("deactivateBegin", id, "pending", {}, {})
            /\ UNCHANGED <<users, refreshTokens, accessIssued, pwJobs, bannedTokens,
                           twoFactor, passwordResets>>

\* user.status = Inactive; repo.save(user): the object that was read is saved
deactivateCommit(c) ==
    /\ calls[c].pc = "deactivate"
    /\ calls' = [calls EXCEPT ![c] = Idle]
    /\ users' = [users EXCEPT ![calls[c].found] =
                    [calls[c].row[1] EXCEPT !.status = Inactive]]
    /\ last' = Reply("deactivate", calls[c].found, "ok", {}, {})
    /\ UNCHANGED <<refreshTokens, accessIssued, pwJobs, bannedTokens, twoFactor,
                   passwordResets>>

\* banUser(id): repo.findOneBy reads the row
banBegin(c, id) ==
    /\ calls[c].pc = "idle"
    /\ IF ~Exists(id)
       THEN Throw("banUser", 0, "NotFoundException")
       ELSE /\ calls' = [calls EXCEPT ![c] =
                            [Idle EXCEPT !.pc = "banRead", !.found = id,
                                         !.row = <<users[id]>>]]
            /\ last' = Reply("banBegin", id, "pending", {}, {})
            /\ UNCHANGED <<users, refreshTokens, accessIssued, pwJobs, bannedTokens,
                           twoFactor, passwordResets>>

\* user.status = Blocked; user.tokenVersion += 1; repo.save(user)
banSave(c) ==
    /\ calls[c].pc = "banRead"
    /\ calls[c].row[1].tokenVersion < MaxTokenVersion
    /\ calls' = [calls EXCEPT ![c].pc = "banSaved"]
    /\ users' = [users EXCEPT ![calls[c].found] =
                    [calls[c].row[1] EXCEPT !.status = Blocked, !.tokenVersion = @ + 1]]
    /\ last' = Reply("banSave", calls[c].found, "pending", {}, {})
    /\ UNCHANGED <<refreshTokens, accessIssued, pwJobs, bannedTokens, twoFactor,
                   passwordResets>>

\* refreshTokenRepo.delete({ user }); the ban has completed
banDelete(c) ==
    /\ calls[c].pc = "banSaved"
    /\ calls' = [calls EXCEPT ![c] = Idle]
    /\ refreshTokens' = DeleteTokensOf(calls[c].found)
    /\ bannedTokens' = bannedTokens \cup RowsOfUser(calls[c].found)
    /\ last' = Reply("banUser", calls[c].found, "ok", {}, {})
    /\ UNCHANGED <<users, accessIssued, pwJobs, twoFactor, passwordResets>>

\* ----------------------------------------------------------- TokenService
\* refreshToken(raw): an unknown or revoked token is refused; a stored one is
\* revoked and replaced by a new pair for its owner (rotation)
refreshToken(tokenId) ==
    IF ~(tokenId \in 1..Len(refreshTokens) /\ refreshTokens[tokenId].state = "active")
    THEN /\ last' = [Reply("refresh", 0, "TokenRevoked", {}, {}) EXCEPT !.arg = tokenId]
         /\ UNCHANGED <<users, refreshTokens, accessIssued, pwJobs, bannedTokens, twoFactor, calls, passwordResets>>
    ELSE LET owner == refreshTokens[tokenId].user
             tok == createAccessToken(owner, users[owner])
         IN  /\ Len(refreshTokens) < MaxRefreshTokens
             /\ refreshTokens' = Append([refreshTokens EXCEPT ![tokenId].state = "revoked"],
                                        [user |-> owner, state |-> "active",
                                         parent |-> tokenId])
             /\ accessIssued' = accessIssued \cup {tok}
             /\ last' = [Reply("refresh", owner, "ok", {tok}, {Len(refreshTokens) + 1})
                            EXCEPT !.arg = tokenId]
             /\ UNCHANGED <<users, pwJobs, bannedTokens, twoFactor, calls, passwordResets>>

\* refreshToken(raw) as two requests can interleave it: the read of the
\* stored row, then the rotation; a client presents a token that was issued
\* or a string that is none
refreshBegin(c, tokenId) ==
    /\ calls[c].pc = "idle"
    /\ tokenId \in 0..Len(refreshTokens)     \* 0: a string that is no token
    /\ calls' = [calls EXCEPT ![c] =
                    [Idle EXCEPT !.pc = "refresh", !.arg = tokenId,
                                 !.found = IF /\ tokenId \in 1..Len(refreshTokens)
                                              /\ refreshTokens[tokenId].state = "active"
                                           THEN refreshTokens[tokenId].user ELSE 0]]
    /\ last' = [Reply("refreshBegin", 0, "pending", {}, {}) EXCEPT !.arg = tokenId]
    /\ UNCHANGED <<users, refreshTokens, accessIssued, pwJobs, bannedTokens, twoFactor,
                   passwordResets>>

\* faulty variant: the rotation trusts what the request read
StillRedeemable_AsRead(c) == calls[c].found # 0

\* the compare of the compare-and-swap: the row is still the active one
StillRedeemable(c) ==
    /\ calls[c].arg \in 1..Len(refreshTokens)
    /\ refreshTokens[calls[c].arg].state = "active"

\* the rotation is one atomic write: the token is revoked and its successor
\* stored only if the token is still active
refreshCommit(c) ==
    /\ calls[c].pc = "refresh"
    /\ calls' = [calls EXCEPT ![c] = Idle]
    /\ IF calls[c].found # 0 /\ StillRedeemable(c)
       THEN LET owner == calls[c].found
                tok == createAccessToken(owner, users[owner])
            IN  /\ Len(refreshTokens) < MaxRefreshTokens
                /\ refreshTokens' =
                      Append([refreshTokens EXCEPT ![calls[c].arg].state = "revoked"],
                             [user |-> owner, state |-> "active", parent |-> calls[c].arg])
                /\ accessIssued' = accessIssued \cup {tok}
                /\ last' = [Reply("refresh", owner, "ok", {tok}, {Len(refreshTokens) + 1})
                               EXCEPT !.arg = calls[c].arg]
       ELSE /\ last' = [Reply("refresh", calls[c].found, "TokenRevoked", {}, {})
                           EXCEPT !.arg = calls[c].arg]
            /\ UNCHANGED <<refreshTokens, accessIssued>>
    /\ UNCHANGED <<users, pwJobs, bannedTokens, twoFactor, passwordResets>>

\* -------------------------------------------------------- PasswordService
\* faulty variant: any user with a reset code outstanding matches
findByResetToken_AnyCode(passwordResetCode) ==
    IF \E i \in 1..Len(users) : users[i].passwordResetCode # NoCode
    THEN CHOOSE i \in 1..Len(users) :
            /\ users[i].passwordResetCode # NoCode
            /\ \A j \in 1..(i - 1) : users[j].passwordResetCode = NoCode
    ELSE 0

\* UsersService.findByResetToken: repo.findOneBy({ passwordResetCode })
findByResetToken(passwordResetCode) ==
    IF \E i \in 1..Len(users) : users[i].passwordResetCode = passwordResetCode
    THEN CHOOSE i \in 1..Len(users) :
            /\ users[i].passwordResetCode = passwordResetCode
            /\ \A j \in 1..(i - 1) : users[j].passwordResetCode # passwordResetCode
    ELSE 0

\* POST /auth/forgot-password: a new single-use code with an expiry is stored
\* on the user and mailed
forgotPassword(email) ==
    IF findByEmail(email) = 0
    THEN Throw("forgotPassword", 0, "NotFoundException")
    ELSE /\ passwordResets.drawn < MaxResetCodes
         /\ users' = [users EXCEPT
                        ![findByEmail(email)].passwordResetCode = passwordResets.drawn + 1,
                        ![findByEmail(email)].passwordResetExpired = FALSE]
         /\ passwordResets' = [passwordResets EXCEPT !.drawn = @ + 1]
         /\ last' = [Reply("forgotPassword", findByEmail(email), "ok", {}, {})
                        EXCEPT !.arg = passwordResets.drawn + 1]
         /\ UNCHANGED <<refreshTokens, accessIssued, pwJobs, bannedTokens, twoFactor, calls>>

\* POST /auth/reset-password, first half: the user of the code is looked up
resetBegin(c, resetToken, newPassword, salt) ==
    /\ calls[c].pc = "idle"
    /\ calls' = [calls EXCEPT ![c] =
                    [Idle EXCEPT
                        !.pc = "reset", !.arg = resetToken,
                        !.found = findByResetToken(resetToken),
                        !.seen = IF findByResetToken(resetToken) = 0 THEN NoCode
                                 ELSE users[findByResetToken(resetToken)].passwordResetCode,
                        !.password = StoredPassword(newPassword, salt)]]
    /\ last' = [Reply("resetBegin", 0, "pending", {}, {}) EXCEPT !.arg = resetToken]
    /\ UNCHANGED <<users, refreshTokens, accessIssued, pwJobs, bannedTokens, twoFactor,
                   passwordResets>>

\* second half: one atomic write consumes the code the request read, stores
\* the new password and bumps tokenVersion; the reply is a session
resetCommit(c) ==
    LET user == calls[c].found
    IN  /\ calls[c].pc = "reset"
        /\ calls' = [calls EXCEPT ![c] = Idle]
        /\ IF user = 0 \/ calls[c].seen = NoCode
           THEN /\ last' = [Reply("resetPassword", 0, "InvalidResetCode", {}, {})
                               EXCEPT !.arg = calls[c].arg]
                /\ UNCHANGED <<users, refreshTokens, accessIssued, passwordResets>>
           ELSE IF users[user].passwordResetCode # calls[c].seen
           THEN /\ last' = [Reply("resetPassword", user, "InvalidResetCode", {}, {})
                               EXCEPT !.arg = calls[c].arg]
                /\ UNCHANGED <<users, refreshTokens, accessIssued, passwordResets>>
           ELSE IF users[user].passwordResetExpired
           THEN /\ last' = [Reply("resetPassword", user, "TokenExpired", {}, {})
                               EXCEPT !.arg = calls[c].arg]
                /\ UNCHANGED <<users, refreshTokens, accessIssued, passwordResets>>
           ELSE LET row == [users[user] EXCEPT !.password = calls[c].password,
                                               !.passwordResetCode = NoCode,
                                               !.passwordResetExpired = FALSE,
                                               !.tokenVersion = @ + 1]
                    session == login(user, row)
                IN  /\ users[user].tokenVersion < MaxTokenVersion
                    /\ session.out = "ok" => Len(refreshTokens) < MaxRefreshTokens
                    /\ users' = [users EXCEPT ![user] = row]
                    /\ passwordResets' = [passwordResets EXCEPT
                                            !.redeemed[calls[c].arg] = @ + 1]
                    /\ refreshTokens' = session.table
                    /\ accessIssued' = accessIssued \cup session.access
                    /\ last' = [Reply("resetPassword", user, session.out,
                                      session.access, session.refresh)
                                   EXCEPT !.arg = calls[c].arg]
        /\ UNCHANGED <<pwJobs, bannedTokens, twoFactor>>

\* the expiry of the outstanding reset code passes
resetExpires(id) ==
    /\ Exists(id)
    /\ users[id].passwordResetCode # NoCode /\ ~users[id].passwordResetExpired
    /\ users' = [users EXCEPT ![id].passwordResetExpired = TRUE]
    /\ last' = Reply("resetExpires", id, "ok", {}, {})
    /\ UNCHANGED <<refreshTokens, accessIssued, pwJobs, bannedTokens, twoFactor, calls,
                   passwordResets>>

\* ----------------------------------------- TwoFactorAuthenticationService
\* faulty variant: the new code starts neither its expiry nor the cooldown
challenge_KeepsTimers(row, code) == [row EXCEPT !.otp = code]

\* challenge(user): one code bound to the user replaces any outstanding one;
\* its expiry and the resend cooldown start
challenge(row, code) ==
    [row EXCEPT !.otp = code, !.otpExpired = FALSE, !.otpCooldown = TRUE]

\* verify(user, code) against the single outstanding code
verifyOtp(row, code) ==
    IF row.otp = NoOtp \/ row.otp # code THEN "OtpInvalid"
    ELSE IF row.otpExpired THEN "OtpExpired"
    ELSE "ok"

\* faulty variant: a failed verify leaves the outstanding code in place
consumeOtp_OnSuccessOnly(row, code) ==
    IF verifyOtp(row, code) = "ok"
    THEN [row EXCEPT !.otp = NoOtp, !.otpExpired = FALSE]
    ELSE row

\* a verify, passed or failed, invalidates the outstanding code
consumeOtp(row, code) == [row EXCEPT !.otp = NoOtp, !.otpExpired = FALSE]

\* POST /auth/setup-two-factor-authentication: a new secret, pending until
\* it is confirmed; twoFactorEnabled is not set yet
setup2FA(id) ==
    /\ Exists(id)
    /\ Authenticated(id)
    /\ twoFactor.drawn < MaxOtpCodes
    /\ users' = [users EXCEPT ![id].twoFactorSecret = twoFactor.drawn + 1]
    /\ twoFactor' = [twoFactor EXCEPT !.drawn = @ + 1]
    /\ last' = Reply("setup2FA", id, "ok", {}, {})
    /\ UNCHANGED <<refreshTokens, accessIssued, pwJobs, bannedTokens, calls, passwordResets>>

\* POST /auth/verify-two-factor-authentication: the code of the pending
\* secret turns twoFactorEnabled on; a wrong code leaves the secret pending
verify2FA(id, code) ==
    /\ Exists(id)
    /\ Authenticated(id)
    /\ IF users[id].twoFactorSecret # NoOtp /\ code = users[id].twoFactorSecret
       THEN /\ users' = [users EXCEPT ![id].twoFactorEnabled = TRUE]
            /\ last' = [Reply("verify2FA", id, "ok", {}, {}) EXCEPT !.arg = code]
       ELSE /\ last' = [Reply("verify2FA", id, "OtpInvalid", {}, {}) EXCEPT !.arg = code]
            /\ UNCHANGED users
    /\ UNCHANGED <<refreshTokens, accessIssued, pwJobs, bannedTokens, twoFactor, calls, passwordResets>>

\* resend(user): refused inside the cooldown, else a new challenge
resend(op, id) ==
    IF users[id].otpCooldown
    THEN Throw(op, id, "OtpThrottled")
    ELSE /\ twoFactor.drawn < MaxOtpCodes
         /\ users' = [users EXCEPT ![id] = challenge(users[id], twoFactor.drawn + 1)]
         /\ twoFactor' = [twoFactor EXCEPT !.drawn = @ + 1]
         /\ last' = [Reply(op, id, "ok", {}, {}) EXCEPT !.arg = twoFactor.drawn + 1]
         /\ UNCHANGED <<refreshTokens, accessIssued, pwJobs, bannedTokens, calls, passwordResets>>

\* POST /auth/resend-two-factor-authentication
resend2faOtp(id) ==
    /\ Exists(id)
    /\ Authenticated(id)
    /\ resend("resend2faOtp", id)

\* POST /auth/resend-two-factor-authentication-for-login
resend2faForLogin(email) ==
    IF findByEmail(email) = 0
    THEN Throw("resend2faForLogin", 0, "NotFoundException")
    ELSE resend("resend2faForLogin", findByEmail(email))

\* POST /auth/login-with-two-factor-authentication: the guard resolves the
\* current user from the credentials, loginWithOtp verifies the code and only
\* then returns login(user)
loginWithOtp(email, password, code) ==
    LET out == verifyUser(email, password)
        user == findByEmail(email)
    IN  IF out # "ok"
        THEN Throw("loginWithOtp", user, out)
        ELSE /\ users' = [users EXCEPT ![user] = consumeOtp(users[user], code)]
             /\ twoFactor' = [twoFactor EXCEPT !.spent =
                                @ \cup ({users[user].otp} \ {NoOtp})]
             /\ IF verifyOtp(users[user], code) = "ok"
                THEN /\ login(user, users[user]).out = "ok"
                            => Len(refreshTokens) < MaxRefreshTokens
                     /\ refreshTokens' = login(user, users[user]).table
                     /\ accessIssued' = accessIssued \cup login(user, users[user]).access
                     /\ last' = [Reply("loginWithOtp", user, login(user, users[user]).out,
                                       login(user, users[user]).access,
                                       login(user, users[user]).refresh)
                                    EXCEPT !.arg = code]
                ELSE /\ last' = [Reply("loginWithOtp", user, verifyOtp(users[user], code),
                                       {}, {}) EXCEPT !.arg = code]
                     /\ UNCHANGED <<refreshTokens, accessIssued>>
             /\ UNCHANGED <<pwJobs, bannedTokens, calls, passwordResets>>

\* the expiry of the outstanding code passes
otpExpires(id) ==
    /\ Exists(id)
    /\ users[id].otp # NoOtp /\ ~users[id].otpExpired
    /\ users' = [users EXCEPT ![id].otpExpired = TRUE]
    /\ last' = Reply("otpExpires", id, "ok", {}, {})
    /\ UNCHANGED <<refreshTokens, accessIssued, pwJobs, bannedTokens, twoFactor, calls, passwordResets>>

\* the resend cooldown passes
cooldownElapses(id) ==
    /\ Exists(id)
    /\ users[id].otpCooldown
    /\ users' = [users EXCEPT ![id].otpCooldown = FALSE]
    /\ last' = Reply("cooldownElapses", id, "ok", {}, {})
    /\ UNCHANGED <<refreshTokens, accessIssued, pwJobs, bannedTokens, twoFactor, calls, passwordResets>>

\* ------------------------------------------------------------------ Next
Next ==
    \/ \E e \in Emails, p \in Passwords, s \in Salts : signup(e, p, s)
    \/ \E e \in Emails, p \in Passwords : signin(e, p)
    \/ \E e \in Emails, p \in Passwords : Login(e, p)
    \/ \E g \in GoogleIds, e \in Emails : googleLogin(g, e)
    \/ \E id \in UserIds, c \in Passwords, n \in Passwords, s \in Salts, b \in BOOLEAN :
            changeMyPassword(id, c, n, s, b)
    \/ \E job \in pwJobs : settleChangePassword(job)
    \/ \E id \in UserIds : deactivate(id)
    \/ \E id \in UserIds : banUser(id)
    \/ \E id \in UserIds, a \in AdminAttrs : updateUserByAdmin(id, a)
    \/ \E t \in 1..MaxRefreshTokens : refreshToken(t)

Spec == Init /\ [][Next]_vars

\* the handlers that read or write status, tokenVersion and the refresh-token
\* table, without the password-change call
NextSession ==
    \/ \E e \in Emails, p \in Passwords, s \in Salts : signup(e, p, s)
    \/ \E e \in Emails, p \in Passwords : signin(e, p)
    \/ \E e \in Emails, p \in Passwords : Login(e, p)
    \/ \E g \in GoogleIds, e \in Emails : googleLogin(g, e)
    \/ \E id \in UserIds : deactivate(id)
    \/ \E id \in UserIds : banUser(id)
    \/ \E id \in UserIds, a \in AdminAttrs : updateUserByAdmin(id, a)
    \/ \E t \in 1..MaxRefreshTokens : refreshToken(t)

SpecSession == Init /\ [][NextSession]_vars

\* the two-factor routes, with sign-up and the two login routes
Next2FA ==
    \/ \E e \in Emails, p \in Passwords, s \in Salts : signup(e, p, s)
    \/ \E e \in Emails, p \in Passwords : Login(e, p)
    \/ \E id \in UserIds : setup2FA(id)
    \/ \E id \in UserIds, c \in 1..MaxOtpCodes : verify2FA(id, c)
    \/ \E id \in UserIds : resend2faOtp(id)
    \/ \E e \in Emails : resend2faForLogin(e)
    \/ \E e \in Emails, p \in Passwords, c \in 1..MaxOtpCodes : loginWithOtp(e, p, c)
    \/ \E id \in UserIds : otpExpires(id)
    \/ \E id \in UserIds : cooldownElapses(id)
    \/ \E id \in UserIds : banUser(id)

Spec2FA == Init /\ [][Next2FA]_vars

\* refresh requests that interleave
NextRefresh ==
    \/ \E e \in Emails, p \in Passwords, s \in Salts : signup(e, p, s)
    \/ \E e \in Emails, p \in Passwords : Login(e, p)
    \/ \E c \in 1..MaxCalls, t \in 0..MaxRefreshTokens : refreshBegin(c, t)
    \/ \E c \in 1..MaxCalls : refreshCommit(c)

SpecRefresh == Init /\ [][NextRefresh]_vars

\* the password-reset routes, with reset requests that interleave
NextReset ==
    \/ \E e \in Emails, p \in Passwords, s \in Salts : signup(e, p, s)
    \/ \E e \in Emails : forgotPassword(e)
    \/ \E c \in 1..MaxCalls, code \in 1..MaxResetCodes, p \in Passwords, s \in Salts :
            resetBegin(c, code, p, s)
    \/ \E c \in 1..MaxCalls : resetCommit(c)
    \/ \E id \in UserIds : resetExpires(id)

SpecReset == Init /\ [][NextReset]_vars

\* registrations and federated logins that interleave, with the two
\* password logins
NextRegister ==
    \/ \E c \in 1..MaxCalls, e \in Emails, p \in Passwords, s \in Salts :
            signupBegin(c, e, p, s)
    \/ \E c \in 1..MaxCalls : signupCommit(c)
    \/ \E c \in 1..MaxCalls, g \in GoogleIds, e \in Emails : googleBegin(c, g, e)
    \/ \E c \in 1..MaxCalls : googleCommit(c)
    \/ \E e \in Emails, p \in Passwords : signin(e, p)
    \/ \E e \in Emails, p \in Passwords : Login(e, p)

SpecRegister == Init /\ [][NextRegister]_vars

\* the routes that write a user's status, tokenVersion, role or profile,
\* with sign-up, login and refresh
NextAccount ==
    \/ \E e \in Emails, p \in Passwords, s \in Salts : signup(e, p, s)
    \/ \E e \in Emails, p \in Passwords : Login(e, p)
    \/ \E id \in UserIds : deactivate(id)
    \/ \E id \in UserIds : banUser(id)
    \/ \E id \in UserIds, a \in AdminAttrs : updateUserByAdmin(id, a)
    \/ \E id \in UserIds, a \in MeAttrs : updateCurrentUser(id, a)
    \/ \E id \in UserIds, r \in UserRoles : assignRole(id, r)
    \/ \E t \in 1..MaxRefreshTokens : refreshToken(t)

SpecAccount == Init /\ [][NextAccount]_vars

\* password storage and verification: sign-up with either salt, federated
\* login, an admin update of the password column, and the two password logins
NextVerify ==
    \/ \E e \in Emails, p \in Passwords, s \in SaltsDrawn : signup(e, p, s)
    \/ \E g \in GoogleIds, e \in Emails : googleLogin(g, e)
    \/ \E id \in UserIds, a \in PasswordAttrs : updateUserByAdmin(id, a)
    \/ \E e \in Emails, p \in Passwords : signin(e, p)
    \/ \E e \in Emails, p \in Passwords : Login(e, p)

SpecVerify == Init /\ [][NextVerify]_vars

\* the lookup of a user by id, over tables that sign-up, federated login and
\* the admin update leave; ids 0 and Len + 1 are ids of no user
NextLookup ==
    \/ \E e \in Emails, p \in Passwords, s \in Salts : signup(e, p, s)
    \/ \E g \in GoogleIds, e \in Emails : googleLogin(g, e)
    \/ \E id \in UserIds, a \in AdminAttrs : updateUserByAdmin(id, a)
    \/ \E id \in 0..(Cardinality(Emails) + 1) : findUser(id)

SpecLookup == Init /\ [][NextLookup]_vars

\* login, ban and deactivation as requests that interleave
NextBan ==
    \/ \E e \in Emails, p \in Passwords, s \in Salts : signup(e, p, s)
    \/ \E c \in 1..MaxCalls, e \in Emails, p \in Passwords : loginBegin(c, e, p)
    \/ \E c \in 1..MaxCalls : loginCommit(c)
    \/ \E c \in 1..MaxCalls, id \in UserIds : deactivateBegin(c, id)
    \/ \E c \in 1..MaxCalls : deactivateCommit(c)
    \/ \E c \in 1..MaxCalls, id \in UserIds : banBegin(c, id)
    \/ \E c \in 1..MaxCalls : banSave(c)
    \/ \E c \in 1..MaxCalls : banDelete(c)

SpecBan == Init /\ [][NextBan]_vars

\* ================================================================ claims
RowsOf(table, id) == {t \in 1..Len(table) : table[t].user = id}

\* the replies that refuse the credentials themselves
CredentialRefusals ==
    {"NotFoundException", "ForbiddenException", "UnprocessableEntityException",
     "WrongEmailOrPassword", "TypeError", "QueryFailedError"}

\* C1: every handler that returns a token (login, signin, googleLogin, the
\* re-login of change-password) returns one only for an Active user; for an
\* Inactive, Blocked or Deleted user whose credentials it accepts it denies
\* with AccountInactive and returns neither an access nor a refresh token.
C1_IssuanceOnlyFromActive ==
    (last.op \in {"login", "signin", "googleLogin", "changeMyPassword"} /\ last.uid # 0)
        => /\ (last.access # {} \/ last.refresh # {})
                => users[last.uid].status = Active
           /\ (users[last.uid].status # Active /\ last.out \notin CredentialRefusals)
                => last.out = "AccountInactiveException"

\* C2: a banUser(id) that completes for an existing user leaves the user
\* Blocked, its tokenVersion exactly one above the value before the call, and
\* no refresh token of the user in the table.
C2_BanPostcondition ==
    [][(last'.op = "banUser" /\ last'.out = "ok")
        => /\ users'[last'.uid].status = Blocked
           /\ users'[last'.uid].tokenVersion = users[last'.uid].tokenVersion + 1
           /\ \A t \in RowsOf(refreshTokens', last'.uid) :
                    refreshTokens'[t].state = "deleted"]_vars

\* a ban completed for a user who held a stored refresh token and had been
\* banned or re-versioned before
C2_Witness ==
    /\ last.op = "banUser" /\ last.out = "ok"
    /\ users[last.uid].status = Blocked
    /\ users[last.uid].tokenVersion = 2
    /\ RowsOf(refreshTokens, last.uid) # {}

\* C3: once a ban or a password change of a user has completed, every access
\* token issued to that user before it fails verification with
\* TokenVersionMismatch.
C3_OldAccessTokensDie ==
    [][(last'.op \in {"banUser", "changePassword"} /\ last'.out = "ok")
        => \A tok \in accessIssued \cup {SignPayload(last'.uid)} :
                tok.sub = last'.uid
                    => VerifyIn(users', tok) = "TokenVersionMismatch"]_vars

\* C4: a refresh token is redeemed at most once, also by requests that
\* interleave: no token has two successors and a token with a successor is no
\* longer active; a refresh of an active token succeeds and revokes it in the
\* same step, a refresh of any other token fails with TokenRevoked and
\* returns no token.
C4_RefreshAtMostOnce ==
    /\ [](\A t \in 1..Len(refreshTokens) :
            /\ Cardinality({r \in 1..Len(refreshTokens) : refreshTokens[r].parent = t}) <= 1
            /\ (\E r \in 1..Len(refreshTokens) : refreshTokens[r].parent = t)
                    => refreshTokens[t].state # "active")
    /\ [][\A c \in 1..MaxCalls :
            refreshCommit(c) =>
                IF /\ calls[c].arg \in 1..Len(refreshTokens)
                   /\ refreshTokens[calls[c].arg].state = "active"
                THEN /\ last'.out = "ok"
                     /\ refreshTokens'[calls[c].arg].state = "revoked"
                ELSE /\ last'.out = "TokenRevoked"
                     /\ last'.access = {} /\ last'.refresh = {}
                     /\ refreshTokens' = refreshTokens]_vars

\* of two requests that both read the token as active, the second is refused
C4_Witness ==
    /\ last.op = "refresh" /\ last.out = "TokenRevoked" /\ last.uid # 0
    /\ refreshTokens[last.arg].state = "revoked"
    /\ \E r \in 1..Len(refreshTokens) : refreshTokens[r].parent = last.arg

\* C5: after a ban of a user completed, refresh with a refresh token issued
\* to that user before the ban fails with TokenRevoked and mints nothing; no
\* such token is redeemable in any later state.
C5_BannedTokensRevoked ==
    /\ \A t \in bannedTokens : refreshTokens[t].state # "active"
    /\ (last.op = "refresh" /\ last.arg \in bannedTokens)
            => /\ last.out = "TokenRevoked"
               /\ last.access = {}
               /\ last.refresh = {}

\* refresh was called with a token of a banned user, after the ban and after
\* the user was let in again
C5_Witness ==
    /\ last.op = "refresh" /\ last.arg \in bannedTokens
    /\ last.out = "TokenRevoked"
    /\ \E t \in 1..Len(refreshTokens) :
            /\ refreshTokens[t].user = refreshTokens[last.arg].user
            /\ refreshTokens[t].state = "active"

\* C6: a change-password request whose current password does not verify
\* fails: the stored hash and tokenVersion stay, and the reply carries no
\* access and no refresh token.
C6_WrongCurrentPasswordFails ==
    [][\A id \in UserIds, c \in Passwords, n \in Passwords, s \in Salts, b \in BOOLEAN :
        (/\ changeMyPassword(id, c, n, s, b)
         /\ ~PasswordMatches(users[id].password, c))
            => /\ users'[id].password = users[id].password
               /\ users'[id].tokenVersion = users[id].tokenVersion
               /\ last'.out # "ok"
               /\ last'.access = {}
               /\ last'.refresh = {}]_vars

\* C7: a user with twoFactorEnabled gets no access or refresh token from a
\* login on the primary credentials alone (login, signin, googleLogin, the
\* re-login of change-password); only a login that verified the one-time
\* code returns tokens.
C7_NoSessionWithoutOtp ==
    (/\ last.op \in {"login", "signin", "googleLogin", "changeMyPassword"}
     /\ last.uid # 0
     /\ users[last.uid].twoFactorEnabled)
        => last.access = {} /\ last.refresh = {}

\* C8: any verify call on a user's outstanding code, passed or failed, leaves
\* the user with no outstanding code; a verify with a code that was
\* outstanding at an earlier verify fails with OtpInvalid and returns no
\* token; a verify passes only on the one code outstanding and unexpired.
C8_OtpSingleUse ==
    [][(last'.op = "loginWithOtp" /\ last'.out \notin CredentialRefusals)
        => /\ users'[last'.uid].otp = NoOtp
           /\ last'.arg \in twoFactor.spent
                => /\ last'.out = "OtpInvalid"
                   /\ last'.access = {}
                   /\ last'.refresh = {}
           /\ last'.out \in {"ok", "AccountInactiveException"}
                => /\ last'.arg = users[last'.uid].otp
                   /\ ~users[last'.uid].otpExpired]_vars

\* a code already verified once is presented again and refused although a
\* newer code is outstanding and unexpired
C8_Witness ==
    /\ last.op = "loginWithOtp" /\ last.out = "OtpInvalid"
    /\ last.arg \in twoFactor.spent
    /\ twoFactor.drawn > last.arg

\* C9: a reset code is consumed at most once, also by requests that
\* interleave: no code has two successful resets and a code that was redeemed
\* matches no user; a successful reset was made with the code outstanding on
\* the user, clears it and raises the user's tokenVersion by one.
C9_ResetCodeSingleUse ==
    /\ [](\A code \in 1..MaxResetCodes :
            /\ passwordResets.redeemed[code] <= 1
            /\ passwordResets.redeemed[code] >= 1 => findByResetToken(code) = 0)
    /\ [][\A c \in 1..MaxCalls :
            (resetCommit(c) /\ last'.out = "ok") =>
                /\ calls[c].arg = users[calls[c].found].passwordResetCode
                /\ users'[calls[c].found].passwordResetCode = NoCode
                /\ users'[calls[c].found].tokenVersion
                      = users[calls[c].found].tokenVersion + 1]_vars

\* of two requests that both found the user of the code, the second is refused
C9_Witness ==
    /\ last.op = "resetPassword" /\ last.out = "InvalidResetCode" /\ last.uid # 0
    /\ passwordResets.redeemed[last.arg] = 1
    /\ users[last.uid].tokenVersion >= 1

\* C10: a federated login with a new external identity whose email belongs to
\* a password account raises FederatedAccountConflict or links the identity
\* to that account; it adds no second row and, unless it linked, returns no
\* token.
C10_FederatedConflictSignalled ==
    [][\A g \in GoogleIds, e \in Emails :
        (/\ googleLogin(g, e)
         /\ findByGoogleId(g) = 0
         /\ findByEmail(e) # 0
         /\ users[findByEmail(e)].googleId = NullGoogleId)
            => /\ Len(users') = Len(users)
               /\ \/ users'[findByEmail(e)].googleId = g
                  \/ /\ last'.out = "FederatedAccountConflict"
                     /\ last'.access = {}
                     /\ last'.refresh = {}]_vars

\* C11: a federated login that creates a user leaves it with a Google id and
\* no password hash; a signin or a login on the email of a user with a Google
\* id and no password hash is refused whatever the password: signin with
\* ForbiddenException, login (verifyUser) with UnprocessableEntityException,
\* neither of them the wrong-password refusal, and no token is returned.
C11_FederatedOnlyRejectsPassword ==
    /\ (last.op = "googleLogin" /\ last.out = "ok")
            => /\ users[last.uid].googleId # NullGoogleId
               /\ users[last.uid].password = NullPassword
    /\ (/\ last.op \in {"signin", "login"}
        /\ last.uid # 0
        /\ users[last.uid].googleId # NullGoogleId
        /\ users[last.uid].password = NullPassword)
            => /\ last.op = "signin" => last.out = "ForbiddenException"
               /\ last.op = "login" => last.out = "UnprocessableEntityException"
               /\ last.out # "WrongEmailOrPassword"
               /\ last.access = {} /\ last.refresh = {}

\* a password signin on the email of a user a federated login created is refused
C11_Witness ==
    /\ last.op = "signin" /\ last.out = "ForbiddenException"
    /\ users[last.uid].provider = "google"
    /\ users[last.uid].password = NullPassword


\* C12: no two rows of the user table have the same email, whatever
\* registrations and federated logins interleave; a registration that
\* completes when the email is in use is refused with EmailInUse (signup of a
\* Google user's email: ForbiddenException) and leaves the table as it was.
C12_EmailUnique ==
    /\ [](\A i, j \in 1..Len(users) : users[i].email = users[j].email => i = j)
    /\ [][\A c \in 1..MaxCalls :
            /\ (signupCommit(c) /\ findByEmail(calls[c].email) # 0)
                    => /\ last'.out \in {"EmailInUse", "ForbiddenException"}
                       /\ users' = users
            /\ \A e \in Emails, p \in Passwords, s \in Salts :
                 (signupBegin(c, e, p, s) /\ findByEmail(e) # 0)
                    => /\ last'.out \in {"EmailInUse", "ForbiddenException"}
                       /\ users' = users]_vars

\* C13: at most one row of the user table carries a given Google id, also
\* when two federated logins with the same new identity interleave; a
\* federated login that completes when a row carries the identity returns a
\* token for that row and creates nothing.
C13_GoogleIdUnique ==
    /\ [](\A i, j \in 1..Len(users) :
            (users[i].googleId # NullGoogleId /\ users[i].googleId = users[j].googleId)
                => i = j)
    /\ [][\A c \in 1..MaxCalls :
            (googleCommit(c) /\ findByGoogleId(calls[c].googleId) # 0)
                => /\ last'.out = "ok"
                   /\ last'.uid = findByGoogleId(calls[c].googleId)
                   /\ last'.access = {SignPayload(last'.uid)}
                   /\ users' = users]_vars


\* C14: a user's tokenVersion is 0 when the row is created and no step of any
\* handler (ban, deactivate, the two updates, assignRole, refresh, login)
\* lowers it.
C14_TokenVersionMonotonic ==
    [][/\ \A id \in 1..Len(users) :
            id \in 1..Len(users') /\ users'[id].tokenVersion >= users[id].tokenVersion
       /\ \A id \in 1..Len(users') :
            id > Len(users) => users'[id].tokenVersion = 0]_vars

\* C15: a user whose status is Deleted keeps that status in every step.
C15_DeletedIsTerminal ==
    [][\A id \in 1..Len(users) :
        users[id].status = Deleted => users'[id].status = Deleted]_vars

\* C16: every step that turns a user's status into Blocked is a banUser, and
\* so a Blocked user owns no refresh token that is still active.
C16_BlockedOnlyByBan ==
    /\ [][\A id \in 1..Len(users) :
            (users[id].status # Blocked /\ users'[id].status = Blocked)
                => last'.op = "banUser" /\ last'.uid = id]_vars
    /\ [](\A id \in 1..Len(users) :
            users[id].status = Blocked
                => \A t \in RowsOf(refreshTokens, id) : refreshTokens[t].state # "active")

\* C17: when deactivate has completed for a user, no refresh token of the
\* user is still active.
C17_DeactivateRevokes ==
    (last.op = "deactivate" /\ last.out = "ok")
        => \A t \in RowsOf(refreshTokens, last.uid) : refreshTokens[t].state # "active"


\* C18: for a user whose stored password is what signup stored for password P
\* under some salt, a signin or login with P passes the credential check and
\* one with any other password is refused with the wrong-password outcome
\* and returns no token.
C18_PasswordRoundTrip ==
    [][\A e \in Emails, q \in Passwords :
        LET u == findByEmail(e)
            stored == IF u = 0 THEN NullPassword ELSE users[u].password
            hashedFrom(p) == \E s \in SaltsDrawn : stored = StoredPassword(p, s)
        IN  (u # 0 /\ \E p \in Passwords : hashedFrom(p)) =>
              /\ signin(e, q) =>
                    IF hashedFrom(q) THEN last'.out = "ok"
                    ELSE /\ last'.out = "WrongEmailOrPassword"
                         /\ last'.access = {} /\ last'.refresh = {}
              /\ (Login(e, q) /\ users[u].provider = "local") =>
                    IF hashedFrom(q) THEN last'.out \in {"ok", "AccountInactiveException"}
                    ELSE /\ last'.out = "WrongEmailOrPassword"
                         /\ last'.access = {} /\ last'.refresh = {}]_vars

\* a login with the other password is refused for a user signed up under the
\* second salt, after a login with the right one got its tokens
C18_Witness ==
    /\ last.op = "login" /\ last.out = "WrongEmailOrPassword"
    /\ \E p \in Passwords : users[last.uid].password = StoredPassword(p, "s2")
    /\ RowsOf(refreshTokens, last.uid) # {}

\* C19: signin and login never end in an unhandled exception and return no
\* token for a user whose stored password is not a salt.hash pair: the reply
\* is the wrong-password refusal or the federated-only refusal.
C19_VerifyNeverThrows ==
    (/\ last.op \in {"signin", "login"}
     /\ last.uid # 0
     /\ users[last.uid].password \in StoredValues)
        => /\ last.out \in {"WrongEmailOrPassword", "ForbiddenException",
                            "UnprocessableEntityException"}
           /\ last.access = {} /\ last.refresh = {}


\* C20: a resend made while the user's cooldown runs is refused with
\* OtpThrottled and leaves the outstanding code and its timers as they were; a
\* resend made after the cooldown has passed stores a new code in place of
\* the outstanding one, unexpired, and starts the cooldown again.
C20_ResendThrottled ==
    [][(last'.op \in {"resend2faOtp", "resend2faForLogin"} /\ last'.uid # 0)
        => IF users[last'.uid].otpCooldown
           THEN /\ last'.out = "OtpThrottled"
                /\ users' = users
                /\ twoFactor' = twoFactor
           ELSE /\ last'.out = "ok"
                /\ users'[last'.uid].otp = last'.arg
                /\ users'[last'.uid].otp \notin {NoOtp, users[last'.uid].otp}
                /\ ~users'[last'.uid].otpExpired
                /\ users'[last'.uid].otpCooldown]_vars

\* a resend after the cooldown replaced the first code, and the next resend,
\* inside the new cooldown, is refused
C20_Witness ==
    /\ last.op \in {"resend2faOtp", "resend2faForLogin"}
    /\ last.out = "OtpThrottled"
    /\ users[last.uid].otp >= 2
    /\ users[last.uid].twoFactorSecret = NoOtp
    /\ users[last.uid].otpCooldown


\* C21: findUser(id) returns the stored row of the user with that id when
\* there is one and raises NotFoundException when there is none; it never
\* answers "ok" with an empty body.
C21_FindUserNotFound ==
    last.op = "findUser"
        => /\ IF last.arg \in 1..Len(users)
              THEN last.out = "ok" /\ last.body = <<users[last.arg]>>
              ELSE last.out = "NotFoundException" /\ last.body = <<>>
           /\ ~(last.out = "ok" /\ last.body = <<>>)

\* an id of no user is looked up while the table holds a user
C21_Witness ==
    /\ last.op = "findUser" /\ last.out = "NotFoundException"
    /\ Len(users) >= 1


\* C22: the change-password endpoint returns its session only when the
\* password change has finished: no changePassword call of the user is still
\* running when the reply is given, and when a change of the user's password
\* completes right after the reply, the access token of the reply still
\* verifies against the user's tokenVersion.
C22_SessionAfterPasswordChange ==
    /\ []((last.op = "changeMyPassword" /\ last.out = "ok")
            => \A job \in pwJobs : job.user # last.uid)
    /\ [][(/\ last.op = "changeMyPassword" /\ last.out = "ok"
           /\ last'.op = "changePassword" /\ last'.out = "ok"
           /\ last'.uid = last.uid)
            => \A tok \in last.access : VerifyIn(users', tok) = "ok"]_vars


\* C23: a deactivate on a user whose status is Blocked or Deleted leaves the
\* user's status as it is.
C23_DeactivateOnlyFromActive ==
    [][(/\ last'.op = "deactivate" /\ last'.out = "ok"
        /\ users[last'.uid].status \in {Blocked, Deleted})
            => users'[last'.uid].status = users[last'.uid].status]_vars

\* C24: whatever login and ban requests interleave, a user whose status is
\* Blocked and on whom no ban is still running owns no active refresh token.
C24_NoTokenAfterBan ==
    \A id \in 1..Len(users) :
        (/\ users[id].status = Blocked
         /\ \A c \in 1..MaxCalls :
                ~(calls[c].pc \in {"banRead", "banSaved"} /\ calls[c].found = id))
            => \A t \in RowsOfUser(id) : refreshTokens[t].state # "active"

\* C25: a deactivate that read the user before a ban saved it does not undo
\* the ban when it saves: the status stays Blocked and the tokenVersion the
\* ban wrote stays.
C25_BanNotOverwritten ==
    [][\A c \in 1..MaxCalls :
        (/\ deactivateCommit(c)
         /\ users[calls[c].found].status = Blocked
         /\ calls[c].row[1].status # Blocked)
            => /\ users'[calls[c].found].status = Blocked
               /\ users'[calls[c].found].tokenVersion
                     = users[calls[c].found].tokenVersion]_vars

\* C26: a signup on the email of a user with a Google id is refused with
\* ForbiddenException, not with the email-in-use refusal; the user table is
\* left as it was and no token is returned.
C26_SignupForGoogleEmail ==
    [][(/\ last'.op = "signup"
        /\ last'.uid \in 1..Len(users)
        /\ users[last'.uid].googleId # NullGoogleId)
            => /\ last'.out = "ForbiddenException"
               /\ last'.out # "EmailInUse"
               /\ users' = users
               /\ last'.access = {} /\ last'.refresh = {}]_vars

\* a signup on the email of a Google user was refused and the user still has
\* no password
C26_Witness ==
    /\ last.op = "signup" /\ last.out = "ForbiddenException"
    /\ users[last.uid].googleId # NullGoogleId
    /\ users[last.uid].password = NullPassword

====
